---- MODULE Spec2Model ----
(***************************************************************************)
(* Model of src/main.py: the ChatBotAgent wrapper and the main coroutine.  *)
(*                                                                         *)
(* Python values: an optional value is a tuple, None == << >> and a value  *)
(* v is <<v>>.  Reply texts are sequences of one-character strings, so     *)
(* that trimming or wrapping a text is visible.                            *)
(*                                                                         *)
(* The Semantic Kernel classes are outside the repository.  What the       *)
(* model takes from them is stated at BindingOutcomes (construction) and   *)
(* at TransportReplies / TransportFails (the awaited request).             *)
(***************************************************************************)
EXTENDS Integers, Sequences, FiniteSets, TLC

VARIABLES
    environ,    \* os.environ, the four keys main reads
    dotenv,     \* the .env file load_dotenv() merges into os.environ
    pc,         \* position of the caller coroutine
    cfg,        \* main's locals endpoint, api_key, deployment_name, api_version
    chatbot,    \* main's local chatbot: None or <<ChatBotAgent fields>>
    calls,      \* messages passed to ChatBotAgent.get_response, in order
    sent,       \* requests handed to agent.get_response, in order
    completed,  \* number of requests the transport has completed
    envelope,   \* reply envelope of the last completed request, or None
    failure,    \* error the transport raised for the last request, or None
    response,   \* value get_response returned to its caller, or None
    raised,     \* exception propagating in the caller, or None
    stdout,     \* characters written to standard output
    exitCode    \* None while running, then <<0>> or <<1>>

vars == <<environ, dotenv, pc, cfg, chatbot, calls, sent, completed,
          envelope, failure, response, raised, stdout, exitCode>>

----------------------------------------------------------------------------
(* Bounds *)

MaxLen == 2      \* longest reply text the transport delivers
MaxCalls == 2    \* get_response calls made on one reused client

----------------------------------------------------------------------------
(* Values *)

None == << >>
Some(v) == <<v>>

Keys == {"AZURE_OPENAI_ENDPOINT", "AZURE_OPENAI_API_KEY",
         "AZURE_OPENAI_DEPLOYMENT_NAME", "AZURE_OPENAI_API_VERSION"}

DefaultApiVersion == "2024-02-15-preview"
DefaultAgentName == "SK-Assistant"
DefaultInstructions == "You are a helpful assistant."
Prompt == "Write a haiku about Semantic Kernel."

\* Values a key can have in the process environment: unset, set to the
\* empty string, or set to a usable value.
EnvironValues(k) ==
    CASE k = "AZURE_OPENAI_ENDPOINT" -> {None, Some(""), Some("https://example")}
      [] k = "AZURE_OPENAI_API_KEY" -> {None, Some(""), Some("k")}
      [] k = "AZURE_OPENAI_DEPLOYMENT_NAME" -> {None, Some(""), Some("gpt-x")}
      [] k = "AZURE_OPENAI_API_VERSION" -> {None, Some(""), Some("2024-06-01")}

\* Values a key can have in the .env file: not listed, or listed.
DotenvValues(k) ==
    CASE k = "AZURE_OPENAI_ENDPOINT" -> {None, Some("https://example")}
      [] k = "AZURE_OPENAI_API_KEY" -> {None, Some("k")}
      [] k = "AZURE_OPENAI_DEPLOYMENT_NAME" -> {None, Some("gpt-x")}
      [] k = "AZURE_OPENAI_API_VERSION" -> {None, Some("2023-05-15")}

Chars == {"a", " "}
Texts == UNION {[1..n -> Chars] : n \in 0..MaxLen}
Messages == {Prompt, "hi"}
TransportErrors == {"AuthenticationError", "TransientNetworkError", "UpstreamError"}

----------------------------------------------------------------------------
(* Pure parts of the code *)

\* load_dotenv(): keys already in os.environ keep their value (no override).
LoadDotenv(env, file) ==
    [k \in Keys |-> IF env[k] # None THEN env[k] ELSE file[k]]

\* os.getenv(key): the value, or None when the key is not set.
GetenvNoDefault(env, key, default) == env[key]

\* os.getenv(key, default): the default only when the key is not set.
Getenv(env, key, default) ==
    IF env[key] = None THEN default ELSE env[key]

\* A required setting is empty or absent.
Empty(v) == v = None \/ v = Some("")

Incomplete(c) ==
    Empty(c.endpoint) \/ Empty(c.api_key) \/ Empty(c.deployment_name)

\* AzureChatCompletion(endpoint=..., api_key=..., deployment_name=...,
\* api_version=...): the binding, built in memory from the four fields.
AzureChatCompletion(self) ==
    [endpoint |-> self.endpoint, api_key |-> self.api_key,
     deployment_name |-> self.deployment_name,
     api_version |-> self.api_version]

\* ChatBotAgent.__init__ up to the call of _initialize_agent.
StoreConfiguration(endpoint, api_key, deployment_name, api_version) ==
    [endpoint |-> endpoint, api_key |-> api_key,
     deployment_name |-> deployment_name, api_version |-> api_version,
     agent_name |-> DefaultAgentName, instructions |-> DefaultInstructions,
     agent |-> None]

\* ChatBotAgent._initialize_agent: self.agent = ChatCompletionAgent(...).
InitializeAgent(self) ==
    [self EXCEPT !.agent = Some([service |-> AzureChatCompletion(self),
                                 name |-> self.agent_name,
                                 instructions |-> self.instructions])]

\* The request get_response hands to the transport.
StaleRequest(self, message) ==
    [agent |-> self.agent,
     messages |-> IF sent = << >> THEN message ELSE sent[Len(sent)].messages]

GetResponseRequest(self, message) ==
    [agent |-> self.agent, messages |-> message]

\* Python str.strip() on a text.
RECURSIVE Strip(_)
Strip(t) ==
    IF t = << >> THEN t
    ELSE IF Head(t) = " " THEN Strip(Tail(t))
    ELSE IF t[Len(t)] = " " THEN Strip(SubSeq(t, 1, Len(t) - 1))
    ELSE t

GetResponseResultStripped(reply) == Strip(reply.content)

\* return response.content
GetResponseResult(reply) == reply.content

\* print(response): the text and one newline.
OutputLineTwice(text) == text \o <<"\n">> \o text \o <<"\n">>

OutputLine(text) == text \o <<"\n">>

----------------------------------------------------------------------------
(* What the Semantic Kernel binding does with the configuration *)

\* Outcomes of building the binding and the agent (TRUE: built, FALSE: the
\* library raises).  src/main.py checks nothing itself.  A complete
\* configuration is accepted.  For an incomplete one the outcome is the
\* library's: it falls back on settings main never reads (a base URL, a
\* token obtained from the host's identity, its own deployment variable)
\* and raises only when these are missing too.
BindingOutcomes(c) == IF Incomplete(c) THEN {TRUE, FALSE} ELSE {TRUE}

----------------------------------------------------------------------------
(* Initial state: the process before main() runs *)

Init ==
    /\ environ \in {e \in [Keys -> UNION {EnvironValues(k) : k \in Keys}] :
                      \A k \in Keys : e[k] \in EnvironValues(k)}
    /\ dotenv \in {f \in [Keys -> UNION {DotenvValues(k) : k \in Keys}] :
                      \A k \in Keys : f[k] \in DotenvValues(k)}
    /\ pc = "start"
    /\ cfg = None
    /\ chatbot = None
    /\ calls = << >>
    /\ sent = << >>
    /\ completed = 0
    /\ envelope = None
    /\ failure = None
    /\ response = None
    /\ raised = None
    /\ stdout = << >>
    /\ exitCode = None

----------------------------------------------------------------------------
(* main, lines 53-59: load_dotenv() and the four os.getenv calls *)

LoadConfig ==
    /\ pc = "start"
    /\ LET env == LoadDotenv(environ, dotenv) IN
         /\ environ' = env
         /\ cfg' = Some([endpoint |-> Getenv(env, "AZURE_OPENAI_ENDPOINT", None),
                         api_key |-> Getenv(env, "AZURE_OPENAI_API_KEY", None),
                         deployment_name |->
                             Getenv(env, "AZURE_OPENAI_DEPLOYMENT_NAME", None),
                         api_version |->
                             Getenv(env, "AZURE_OPENAI_API_VERSION",
                                    Some(DefaultApiVersion))])
    /\ pc' = "config"
    /\ UNCHANGED <<dotenv, chatbot, calls, sent, completed, envelope, failure,
                   response, raised, stdout, exitCode>>

(* main, line 62: ChatBotAgent(...), that is __init__ and _initialize_agent *)

ConstructProbing ==
    /\ pc = "config"
    /\ \E built \in BindingOutcomes(cfg[1]) :
         LET self == StoreConfiguration(cfg[1].endpoint, cfg[1].api_key,
                                        cfg[1].deployment_name,
                                        cfg[1].api_version)
         IN IF built
            THEN /\ chatbot' = Some(InitializeAgent(self))
                 /\ sent' = Append(sent, GetResponseRequest(InitializeAgent(self), "ping"))
                 /\ pc' = "constructed"
                 /\ UNCHANGED raised
            ELSE /\ raised' = Some("ConfigurationError")
                 /\ pc' = "raising"
                 /\ UNCHANGED <<chatbot, sent>>
    /\ UNCHANGED <<environ, dotenv, cfg, calls, completed, envelope, failure,
                   response, stdout, exitCode>>

Construct ==
    /\ pc = "config"
    /\ \E built \in BindingOutcomes(cfg[1]) :
         LET self == StoreConfiguration(cfg[1].endpoint, cfg[1].api_key,
                                        cfg[1].deployment_name,
                                        cfg[1].api_version)
         IN IF built
            THEN /\ chatbot' = Some(InitializeAgent(self))
                 /\ pc' = "constructed"
                 /\ UNCHANGED raised
            ELSE /\ raised' = Some("ConfigurationError")
                 /\ pc' = "raising"
                 /\ UNCHANGED chatbot
    /\ UNCHANGED <<environ, dotenv, cfg, calls, sent, completed, envelope,
                   failure, response, stdout, exitCode>>

(* get_response, line 48 up to the await: the request is handed to the
   transport and the caller is suspended *)

GetResponseCall(message) ==
    /\ calls' = Append(calls, message)
    /\ sent' = Append(sent, GetResponseRequest(chatbot[1], message))
    /\ envelope' = None
    /\ failure' = None
    /\ response' = None
    /\ raised' = None
    /\ pc' = "awaiting"
    /\ UNCHANGED <<environ, dotenv, cfg, chatbot, completed, stdout, exitCode>>

(* main, line 65: the one call, with the fixed prompt *)

SendRequestNoAwait ==
    /\ pc = "constructed"
    /\ calls' = Append(calls, Prompt)
    /\ sent' = Append(sent, GetResponseRequest(chatbot[1], Prompt))
    /\ response' = Some(<< >>)
    /\ pc' = "returned"
    /\ UNCHANGED <<environ, dotenv, cfg, chatbot, completed, envelope, failure,
                   raised, stdout, exitCode>>

SendRequest ==
    /\ pc = "constructed"
    /\ GetResponseCall(Prompt)

(* The transport completes the awaited request with a reply envelope;
   get_response resumes (lines 48-49) and main binds the result (line 65) *)

TransportReplies(text) ==
    /\ pc = "awaiting"
    /\ completed' = completed + 1
    /\ envelope' = Some([content |-> text, role |-> "assistant",
                         name |-> chatbot[1].agent_name])
    /\ response' = Some(GetResponseResult(envelope'[1]))
    /\ pc' = "returned"
    /\ UNCHANGED <<environ, dotenv, cfg, chatbot, calls, sent, failure, raised,
                   stdout, exitCode>>

(* The transport completes the awaited request with an error; nothing in
   get_response or main catches it *)

TransportFailsRetried(error) ==
    /\ pc = "awaiting"
    /\ completed' = completed + 1
    /\ failure' = Some(error)
    /\ IF Len(sent) < 2
       THEN /\ sent' = Append(sent, sent[Len(sent)])
            /\ UNCHANGED <<raised, pc>>
       ELSE /\ raised' = Some(error)
            /\ pc' = "raising"
            /\ UNCHANGED sent
    /\ UNCHANGED <<environ, dotenv, cfg, chatbot, calls, envelope,
                   response, stdout, exitCode>>

TransportFailsPartial(error) ==
    /\ pc = "awaiting"
    /\ completed' = completed + 1
    /\ failure' = Some(error)
    /\ raised' = Some(error)
    /\ response' = Some(<<"a">>)
    /\ pc' = "raising"
    /\ UNCHANGED <<environ, dotenv, cfg, chatbot, calls, sent, envelope,
                   stdout, exitCode>>

TransportFails(error) ==
    /\ pc = "awaiting"
    /\ completed' = completed + 1
    /\ failure' = Some(error)
    /\ raised' = Some(error)
    /\ pc' = "raising"
    /\ UNCHANGED <<environ, dotenv, cfg, chatbot, calls, sent, envelope,
                   response, stdout, exitCode>>

(* main, line 66: print(response) *)

WriteStdout ==
    /\ pc = "returned"
    /\ stdout' = stdout \o OutputLine(response[1])
    /\ pc' = "printed"
    /\ UNCHANGED <<environ, dotenv, cfg, chatbot, calls, sent, completed,
                   envelope, failure, response, raised, exitCode>>

(* line 69: main returns, asyncio.run returns, the interpreter exits 0 *)

Exit ==
    /\ pc = "printed"
    /\ exitCode' = Some(0)
    /\ pc' = "exited"
    /\ UNCHANGED <<environ, dotenv, cfg, chatbot, calls, sent, completed,
                   envelope, failure, response, raised, stdout>>

(* line 69: the exception leaves main and asyncio.run uncaught; the
   interpreter reports it on standard error and exits 1 *)

UnhandledSwallowed ==
    /\ pc = "raising"
    /\ exitCode' = Some(0)
    /\ raised' = None
    /\ pc' = "exited"
    /\ UNCHANGED <<environ, dotenv, cfg, chatbot, calls, sent, completed,
                   envelope, failure, response, stdout>>

Unhandled ==
    /\ pc = "raising"
    /\ exitCode' = Some(1)
    /\ pc' = "exited"
    /\ UNCHANGED <<environ, dotenv, cfg, chatbot, calls, sent, completed,
                   envelope, failure, response, raised, stdout>>

----------------------------------------------------------------------------
(* The program: one run of main *)

Next ==
    \/ LoadConfig
    \/ Construct
    \/ SendRequest
    \/ \E text \in Texts : TransportReplies(text)
    \/ \E error \in TransportErrors : TransportFails(error)
    \/ WriteStdout
    \/ Exit
    \/ Unhandled

Spec == Init /\ [][Next]_vars

\* The program's own steps are always taken (a single task, nothing else to
\* schedule), and the transport completes every request it was handed.
ProgramStep == LoadConfig \/ Construct \/ SendRequest \/ WriteStdout \/ Exit \/ Unhandled
TransportCompletes ==
    \/ \E text \in Texts : TransportReplies(text)
    \/ \E error \in TransportErrors : TransportFails(error)

FairSpec == Spec /\ WF_vars(ProgramStep) /\ WF_vars(TransportCompletes)

----------------------------------------------------------------------------
(* One client reused by a caller that makes several get_response calls and
   handles the error of a failed call itself *)

ReuseCall(message) ==
    /\ pc \in {"constructed", "returned", "raising"}
    /\ chatbot # None
    /\ Len(calls) < MaxCalls
    /\ GetResponseCall(message)

ReuseNext ==
    \/ LoadConfig
    \/ Construct
    \/ \E message \in Messages : ReuseCall(message)
    \/ \E text \in Texts : TransportReplies(text)
    \/ \E error \in TransportErrors : TransportFails(error)

ReuseSpec == Init /\ [][ReuseNext]_vars

----------------------------------------------------------------------------
(* Properties *)

\* The client ChatBotAgent(...) builds from main's four locals.
ExpectedClient(c) ==
    [endpoint |-> c.endpoint, api_key |-> c.api_key,
     deployment_name |-> c.deployment_name, api_version |-> c.api_version,
     agent_name |-> "SK-Assistant",
     instructions |-> "You are a helpful assistant.",
     agent |-> Some([service |-> [endpoint |-> c.endpoint,
                                  api_key |-> c.api_key,
                                  deployment_name |-> c.deployment_name,
                                  api_version |-> c.api_version],
                     name |-> "SK-Assistant",
                     instructions |-> "You are a helpful assistant."])]

\* C1: when the transport completes a request with a reply envelope whose
\* content is T, get_response returns exactly T, whatever the message was.
C1_ReplyReturnedVerbatim ==
    (pc = "returned" /\ envelope # None) =>
        response = Some(envelope[1].content)

C1_Witness ==
    /\ pc = "returned"
    /\ envelope # None
    /\ envelope[1].content = <<" ", "a">>
    /\ calls[Len(calls)] = "hi"

\* C2 (as claimed): with an empty or absent endpoint, credential or
\* deployment identifier the run fails with ConfigurationError and the
\* transport is never invoked.
C2_IncompleteConfigFailsBeforeRequest ==
    (cfg # None /\ Incomplete(cfg[1])) =>
        /\ sent = << >>
        /\ pc # "config" => raised = Some("ConfigurationError")

\* C3: a timeout or connection failure of the transport reaches the caller
\* as TransientNetworkError and the transport was invoked exactly once: no
\* request follows the failure.
C3_TransientFailureNotRetried ==
    failure = Some("TransientNetworkError") =>
        /\ Len(sent) = 1
        /\ completed = 1
        /\ raised = Some("TransientNetworkError")
        /\ pc \in {"raising", "exited"}

C3_Witness ==
    /\ pc = "exited"
    /\ failure = Some("TransientNetworkError")
    /\ Len(sent) = 1

\* C4: an authentication failure raised by the transport leaves get_response
\* and main as it is, and the process ends with a non-zero exit code.
C4_AuthenticationFailurePropagates ==
    failure = Some("AuthenticationError") =>
        /\ raised = Some("AuthenticationError")
        /\ response = None
        /\ stdout = << >>
        /\ pc \in {"raising", "exited"}
        /\ pc = "exited" => (exitCode # None /\ exitCode[1] # 0)

C4_Witness ==
    /\ pc = "exited"
    /\ failure = Some("AuthenticationError")
    /\ exitCode = Some(1)

\* C5: with non-empty endpoint, credential and deployment identifier the
\* construction succeeds, and no request has been issued when it is done;
\* requests are issued by get_response calls only.
C5_ConstructionWithoutNetwork ==
    /\ pc \in {"start", "config", "constructed"} =>
           (sent = << >> /\ completed = 0)
    /\ (cfg # None /\ ~Incomplete(cfg[1]) /\ pc # "config") =>
           (chatbot = Some(ExpectedClient(cfg[1])) /\
            raised # Some("ConfigurationError"))
    /\ Len(sent) = Len(calls)

C5_Witness ==
    /\ pc = "constructed"
    /\ ~Incomplete(cfg[1])
    /\ chatbot # None
    /\ sent = << >>

\* C6: when the service replies with content T to the fixed prompt, standard
\* output at exit is T and one newline, written once, and the exit code is 0.
C6_StdoutIsReplyAndNewline ==
    /\ (pc = "exited" /\ envelope # None) =>
           /\ stdout = envelope[1].content \o <<"\n">>
           /\ exitCode = Some(0)
           /\ Len(sent) = 1
           /\ sent[1].messages = "Write a haiku about Semantic Kernel."
    /\ pc \notin {"printed", "exited"} => stdout = << >>

C6_Witness ==
    /\ pc = "exited"
    /\ ~Incomplete(cfg[1])
    /\ envelope # None
    /\ envelope[1].content = <<"a", " ">>
    /\ stdout = <<"a", " ", "\n">>

\* C7: get_response calls on one client are independent: the client's
\* fields stay as constructed, and the request sent for a message consists
\* of the agent handle and that message alone, whatever calls came before.
C7_CallsIndependent ==
    chatbot # None =>
        /\ chatbot = Some(ExpectedClient(cfg[1]))
        /\ Len(sent) = Len(calls)
        /\ \A i \in 1..Len(sent) :
               sent[i] = [agent |-> ExpectedClient(cfg[1]).agent,
                          messages |-> calls[i]]

C7_Witness ==
    /\ Len(calls) = 2
    /\ calls[1] # calls[2]
    /\ pc = "raising"
    /\ completed = 2

\* C8: the version handed to the client is the fixed default when the key
\* is not set and the configured value when it is; it is never None.
C8_ApiVersionDefault ==
    cfg # None =>
        /\ cfg[1].api_version # None
        /\ cfg[1].api_version =
               IF environ["AZURE_OPENAI_API_VERSION"] = None
               THEN Some("2024-02-15-preview")
               ELSE environ["AZURE_OPENAI_API_VERSION"]
        /\ chatbot # None =>
               /\ chatbot[1].api_version = cfg[1].api_version
               /\ chatbot[1].agent[1].service.api_version = cfg[1].api_version

C8_Witness ==
    /\ chatbot # None
    /\ environ["AZURE_OPENAI_API_VERSION"] = None
    /\ chatbot[1].api_version = Some("2024-02-15-preview")
    /\ Incomplete(cfg[1])

\* C9: a call ends with a complete reply or with an error, never both, and
\* nothing is written to standard output in a run that failed.
C9_NoPartialResult ==
    /\ ~(response # None /\ raised # None)
    /\ response # None => (envelope # None /\ failure = None)
    /\ raised # None => (stdout = << >> /\ envelope = None)
    /\ stdout # << >> => (response # None /\ pc \in {"printed", "exited"})

C9_Witness ==
    /\ pc = "exited"
    /\ sent # << >>
    /\ raised = Some("UpstreamError")
    /\ stdout = << >>

\* C10: when the transport completes every request, every run exits, after
\* at most one request; the program leaves the await only when the
\* transport has completed the request.
C10_ExitsWhenTransportCompletes ==
    /\ <>(pc = "exited")
    /\ [](Len(sent) <= 1)
    /\ [](pc \in {"returned", "printed", "raising", "exited"} =>
              completed = Len(sent))
    /\ [][(pc = "awaiting" /\ pc' # "awaiting") => completed' = completed + 1]_vars

C10_Witness ==
    /\ pc = "exited"
    /\ completed = 1
    /\ Len(sent) = 1

====
